---- MODULE Spec2Model ----
(***************************************************************************)
(* A model of src/util.ts of setup-java (version matching, version-file   *)
(* parsing, archive-format dispatch, tool-cache lookup) and of the GraalVM *)
(* installer's locate/acquire workflow that uses it.                       *)
(*                                                                         *)
(* JavaScript strings are sequences of one-character strings, so that      *)
(* parsing, splitting and regular-expression matching are computed and not *)
(* assumed.  The semver library calls made by util.ts are modelled by what *)
(* the library does on the character set used here: digits, lower-case     *)
(* letters, '.', '-', '+', '/', blank and newline.  Range operators        *)
(* (< > = ~ ^ * |) do not occur in any input of the model.                  *)
(***************************************************************************)
EXTENDS Integers, Sequences, FiniteSets, TLC

VARIABLES
  call,        \* the util.ts function under call and its arguments
  ret,         \* its outcome: pending, a value, null, or a thrown error
  platform,    \* process.platform
  fsDirs,      \* directories that exist under RUNNER_TOOL_CACHE
  pc,          \* position of the running installer call
  req,         \* the request of the running installer call
  steps,       \* collaborator calls made by the running installer call, in order
  outcome,     \* result of the last finished installer call
  downloads,   \* per cache key: calls of the download collaborator so far
  installed,   \* per cache key: the path its first successful acquisition returned
  failed,      \* cache keys whose latest acquisition failed
  runs         \* installer calls started so far

vars == <<call, ret, platform, fsDirs, pc, req, steps, outcome, downloads,
          installed, failed, runs>>

-----------------------------------------------------------------------------
(* Characters and strings *)

Digit == {"0", "1", "2", "3", "4", "5", "6", "7", "8", "9"}

Letter == {"a", "b", "c", "d", "e", "f", "g", "h", "i", "j", "k", "l", "m",
           "n", "o", "p", "q", "r", "s", "t", "u", "v", "w", "x", "y", "z"}

\* JavaScript's \s, on the characters of the model.
WhiteSpace == {" ", "\n"}

\* JavaScript's line terminators, on the characters of the model.
LineTerminator == {"\n"}

\* The characters of the model in the order of their UTF-16 code units.
CodeOrder == <<"\n", " ", "+", "-", ".", "/",
               "0", "1", "2", "3", "4", "5", "6", "7", "8", "9",
               "a", "b", "c", "d", "e", "f", "g", "h", "i", "j", "k", "l", "m",
               "n", "o", "p", "q", "r", "s", "t", "u", "v", "w", "x", "y", "z">>

CharCode(c) == CHOOSE i \in 1..Len(CodeOrder) : CodeOrder[i] = c

DigitValue(c) == CharCode(c) - CharCode("0")

AllIn(s, S) == \A i \in 1..Len(s) : s[i] \in S

\* Number(s) for a string of decimal digits.
RECURSIVE ToNumber(_)
ToNumber(s) ==
  IF s = <<>> THEN 0
  ELSE ToNumber(SubSeq(s, 1, Len(s) - 1)) * 10 + DigitValue(s[Len(s)])

\* Number.prototype.toString() for a natural number.
RECURSIVE NumToString(_)
NumToString(n) ==
  IF n < 10 THEN <<CodeOrder[CharCode("0") + n]>>
  ELSE NumToString(n \div 10) \o <<CodeOrder[CharCode("0") + (n % 10)]>>

\* String.prototype.split(sep) for a one-character separator.
RECURSIVE Split(_, _)
Split(s, sep) ==
  IF \A i \in 1..Len(s) : s[i] # sep THEN <<s>>
  ELSE LET i == CHOOSE k \in 1..Len(s) :
                  s[k] = sep /\ \A j \in 1..(k - 1) : s[j] # sep
       IN <<SubSeq(s, 1, i - 1)>> \o Split(SubSeq(s, i + 1, Len(s)), sep)

\* Array.prototype.join(sep).
RECURSIVE Join(_, _)
Join(parts, sep) ==
  IF parts = <<>> THEN <<>>
  ELSE IF Len(parts) = 1 THEN parts[1]
  ELSE parts[1] \o sep \o Join(Tail(parts), sep)

StartsWith(s, p) == Len(s) >= Len(p) /\ SubSeq(s, 1, Len(p)) = p

EndsWith(s, p) ==
  Len(s) >= Len(p) /\ SubSeq(s, Len(s) - Len(p) + 1, Len(s)) = p

\* String.prototype.trim().
RECURSIVE Trim(_)
Trim(s) ==
  IF s = <<>> THEN s
  ELSE IF s[1] \in WhiteSpace THEN Trim(Tail(s))
  ELSE IF s[Len(s)] \in WhiteSpace THEN Trim(SubSeq(s, 1, Len(s) - 1))
  ELSE s

\* String.prototype.substring(n).
Substring(s, n) == SubSeq(s, n + 1, Len(s))

\* a < b on strings: by code units, a proper prefix first.
RECURSIVE StrLess(_, _)
StrLess(a, b) ==
  IF b = <<>> THEN FALSE
  ELSE IF a = <<>> THEN TRUE
  ELSE IF a[1] = b[1] THEN StrLess(Tail(a), Tail(b))
  ELSE CharCode(a[1]) < CharCode(b[1])

\* Values a JavaScript function can produce.
Null == [kind |-> "null"]
Str(s) == [kind |-> "string", value |-> s]
Bool(b) == [kind |-> "boolean", value |-> b]
Throws == [kind |-> "throws"]
Pending == [kind |-> "pending"]

-----------------------------------------------------------------------------
(* The semver library, as util.ts calls it (strict mode, default options) *)

\* re NUMERICIDENTIFIER: 0|[1-9]\d*
IsNumericIdentifier(s) ==
  s # <<>> /\ AllIn(s, Digit) /\ (Len(s) = 1 \/ s[1] # "0")

\* re PRERELEASEIDENTIFIER: a numeric identifier, or \d*[a-zA-Z-][a-zA-Z0-9-]*
IsPrereleaseIdentifier(s) ==
  /\ s # <<>>
  /\ AllIn(s, Digit \cup Letter \cup {"-"})
  /\ (AllIn(s, Digit) => IsNumericIdentifier(s))

\* re BUILDIDENTIFIER: [0-9A-Za-z-]+
IsBuildIdentifier(s) == s # <<>> /\ AllIn(s, Digit \cup Letter \cup {"-"})

NotSemVer == [ok |-> FALSE]

\* Index of the first character of s that is in S, or Len(s) + 1.
FirstIn(s, S) ==
  IF \E i \in 1..Len(s) : s[i] \in S
  THEN CHOOSE i \in 1..Len(s) : s[i] \in S /\ \A j \in 1..(i - 1) : s[j] \notin S
  ELSE Len(s) + 1

\* new SemVer(version): re FULL is ^v?M.m.p(-prerelease)?(+build)?$ on the
\* trimmed string.  NotSemVer where the constructor throws.
SemVer(version) ==
  LET t == Trim(version)
      s == IF t # <<>> /\ t[1] = "v" THEN Tail(t) ELSE t
      m == FirstIn(s, {"-", "+"})
      main == Split(SubSeq(s, 1, m - 1), ".")
      rest == SubSeq(s, m, Len(s))
      hasPre == rest # <<>> /\ rest[1] = "-"
      p == IF hasPre THEN FirstIn(rest, {"+"}) ELSE 1
      pre == IF hasPre THEN Split(SubSeq(rest, 2, p - 1), ".") ELSE <<>>
      brest == SubSeq(rest, p, Len(rest))
      hasBuild == brest # <<>>
      build == IF hasBuild THEN Split(Tail(brest), ".") ELSE <<>>
  IN IF /\ Len(main) = 3
        /\ \A i \in 1..3 : IsNumericIdentifier(main[i])
        /\ \A i \in 1..Len(pre) : IsPrereleaseIdentifier(pre[i])
        /\ \A i \in 1..Len(build) : IsBuildIdentifier(build[i])
     THEN [ok |-> TRUE, major |-> ToNumber(main[1]), minor |-> ToNumber(main[2]),
           patch |-> ToNumber(main[3]), prerelease |-> pre, build |-> build]
     ELSE NotSemVer

\* semver.parse(version): the SemVer, or null (NotSemVer) when invalid.
parse(version) == SemVer(version)

\* SemVer.format(): the version without its build metadata.
format(sv) ==
  NumToString(sv.major) \o <<".">> \o NumToString(sv.minor) \o <<".">>
    \o NumToString(sv.patch)
    \o (IF sv.prerelease = <<>> THEN <<>>
        ELSE <<"-">> \o Join(sv.prerelease, <<".">>))

\* semver.valid(version): the formatted version, or null.
valid(version) ==
  IF parse(version).ok THEN Str(format(parse(version))) ELSE Null

Sign(a, b) == IF a = b THEN 0 ELSE IF a < b THEN -1 ELSE 1

\* internal/identifiers.js compareIdentifiers(a, b).
compareIdentifiers(a, b) ==
  LET anum == a # <<>> /\ AllIn(a, Digit)
      bnum == b # <<>> /\ AllIn(b, Digit)
  IN IF anum /\ bnum THEN Sign(ToNumber(a), ToNumber(b))
     ELSE IF a = b THEN 0
     ELSE IF anum /\ ~bnum THEN -1
     ELSE IF bnum /\ ~anum THEN 1
     ELSE IF StrLess(a, b) THEN -1
     ELSE 1

\* The identifier loop shared by SemVer.comparePre and SemVer.compareBuild:
\* the first position where the two lists are not === decides.
RECURSIVE compareIdentifierLists(_, _)
compareIdentifierLists(a, b) ==
  IF a = <<>> /\ b = <<>> THEN 0
  ELSE IF b = <<>> THEN 1
  ELSE IF a = <<>> THEN -1
  ELSE IF a[1] = b[1] THEN compareIdentifierLists(Tail(a), Tail(b))
  ELSE compareIdentifiers(a[1], b[1])

\* SemVer.compareMain(other).
compareMain(a, b) ==
  IF a.major # b.major THEN Sign(a.major, b.major)
  ELSE IF a.minor # b.minor THEN Sign(a.minor, b.minor)
  ELSE Sign(a.patch, b.patch)

\* SemVer.comparePre(other).
comparePre(a, b) ==
  IF a.prerelease # <<>> /\ b.prerelease = <<>> THEN -1
  ELSE IF a.prerelease = <<>> /\ b.prerelease # <<>> THEN 1
  ELSE compareIdentifierLists(a.prerelease, b.prerelease)

\* SemVer.compare(other).
compare(a, b) ==
  IF compareMain(a, b) # 0 THEN compareMain(a, b) ELSE comparePre(a, b)

\* SemVer.compareBuild(other) of the build identifier lists.
compareBuildLists(a, b) == compareIdentifierLists(a.build, b.build)

\* semver.compareBuild(a, b): versionA.compare(versionB) ||
\* versionA.compareBuild(versionB); throws on an invalid version.
compareBuild(a, b) ==
  IF ~SemVer(a).ok \/ ~SemVer(b).ok THEN Throws
  ELSE IF compare(SemVer(a), SemVer(b)) # 0
       THEN [kind |-> "number", value |-> compare(SemVer(a), SemVer(b))]
       ELSE [kind |-> "number", value |-> compareBuildLists(SemVer(a), SemVer(b))]

\* re XRANGEIDENTIFIER: a numeric identifier, x, X or *
IsXRangeIdentifier(s) == IsNumericIdentifier(s) \/ s = <<"x">>

\* isX(id) of classes/range.js: a missing component, x, X or *
isX(parts, i) == i > Len(parts) \/ parts[i] = <<"x">>

\* s without its leading characters in S.
RECURSIVE DropLeading(_, _)
DropLeading(s, S) ==
  IF s # <<>> /\ s[1] \in S THEN DropLeading(Tail(s), S) ELSE s

\* A match of re XRANGE, ^[v=\s]*(XRI)(\.(XRI)(\.(XRI)PRERELEASE?BUILD?)?)?$,
\* for a comparator without an operator: its components, or no match.
XRange(comp) ==
  LET s == DropLeading(comp, {"v"} \cup WhiteSpace)
      m == FirstIn(s, {"-", "+"})
      parts == Split(SubSeq(s, 1, m - 1), ".")
      rest == SubSeq(s, m, Len(s))
      hasPre == rest # <<>> /\ rest[1] = "-"
      p == IF hasPre THEN FirstIn(rest, {"+"}) ELSE 1
      pre == IF hasPre THEN Split(SubSeq(rest, 2, p - 1), ".") ELSE <<>>
      brest == SubSeq(rest, p, Len(rest))
      build == IF brest # <<>> THEN Split(Tail(brest), ".") ELSE <<>>
  IN IF /\ Len(parts) \in 1..3
        /\ \A i \in 1..Len(parts) : IsXRangeIdentifier(parts[i])
        /\ (rest # <<>> => Len(parts) = 3)
        /\ \A i \in 1..Len(pre) : IsPrereleaseIdentifier(pre[i])
        /\ \A i \in 1..Len(build) : IsBuildIdentifier(build[i])
     THEN [ok |-> TRUE, parts |-> parts]
     ELSE [ok |-> FALSE]

\* Comparator.ANY, and a comparator with an operator and a version.
ANY == [any |-> TRUE, operator |-> "", semver |-> NotSemVer]
Comparator(op, sv) == [any |-> FALSE, operator |-> op, semver |-> sv]

Version(M, m, p, pre) ==
  [ok |-> TRUE, major |-> M, minor |-> m, patch |-> p, prerelease |-> pre,
   build |-> <<>>]

\* The lower bound >=M.m.0 of an x-range; replaceGTE0 turns >=0.0.0 into the
\* empty comparator, which parseRange drops beside another comparator.
LowerBound(M, m) ==
  IF M = 0 /\ m = 0 THEN <<>> ELSE <<Comparator(">=", Version(M, m, 0, <<>>))>>

\* new Range(range) for a range that is empty or one comparator without an
\* operator (replaceXRange, replaceStars, replaceGTE0, new Comparator):
\* its comparator set, or not ok where the constructor throws.
Range(range) ==
  LET r == Trim(range)
      x == XRange(r)
  IN IF r = <<>> THEN [ok |-> TRUE, set |-> <<ANY>>]
     ELSE IF ~x.ok THEN [ok |-> FALSE]
     ELSE IF isX(x.parts, 1) THEN [ok |-> TRUE, set |-> <<ANY>>]
     ELSE IF isX(x.parts, 2)
       THEN LET M == ToNumber(x.parts[1])
            IN [ok |-> TRUE,
                set |-> LowerBound(M, 0)
                          \o <<Comparator("<", Version(M + 1, 0, 0, <<"0">>))>>]
     ELSE IF isX(x.parts, 3)
       THEN LET M == ToNumber(x.parts[1])
                m == ToNumber(x.parts[2])
            IN [ok |-> TRUE,
                set |-> LowerBound(M, m)
                          \o <<Comparator("<", Version(M, m + 1, 0, <<"0">>))>>]
     \* a full version is left as it is, and re COMPARATOR allows one v
     ELSE IF SemVer(r).ok THEN [ok |-> TRUE, set |-> <<Comparator("", SemVer(r))>>]
     ELSE [ok |-> FALSE]

\* semver.validRange(range) is not null.
validRange(range) == Range(range).ok

\* Comparator.test(version), through functions/cmp.js.
ComparatorTest(c, sv) ==
  IF c.any THEN TRUE
  ELSE IF c.operator = "" THEN compare(sv, c.semver) = 0
  ELSE IF c.operator = ">=" THEN compare(sv, c.semver) >= 0
  ELSE compare(sv, c.semver) < 0

\* testSet(set, version, options) of classes/range.js.
testSet(set, sv) ==
  /\ \A i \in 1..Len(set) : ComparatorTest(set[i], sv)
  /\ (sv.prerelease # <<>> =>
        \E i \in 1..Len(set) :
          /\ ~set[i].any
          /\ set[i].semver.prerelease # <<>>
          /\ set[i].semver.major = sv.major
          /\ set[i].semver.minor = sv.minor
          /\ set[i].semver.patch = sv.patch)

\* semver.satisfies(version, range): false for an invalid range or version.
satisfies(version, range) ==
  /\ Range(range).ok
  /\ SemVer(version).ok
  /\ testSet(Range(range).set, SemVer(version))

\* Index of the first digit of s that starts a run of digits, or 0.
FirstDigitRun(s) ==
  IF \E i \in 1..Len(s) : s[i] \in Digit
  THEN CHOOSE i \in 1..Len(s) : s[i] \in Digit /\ \A j \in 1..(i - 1) : s[j] \notin Digit
  ELSE 0

\* The run of digits of s that starts at index i.
DigitRun(s, i) ==
  LET rest == SubSeq(s, i, Len(s))
      n == IF \E k \in 1..Len(rest) : rest[k] \notin Digit
           THEN (CHOOSE k \in 1..Len(rest) :
                   rest[k] \notin Digit /\ \A j \in 1..(k - 1) : rest[j] \in Digit) - 1
           ELSE Len(rest)
  IN SubSeq(rest, 1, n)

\* semver.coerce(version) for a string: re COERCE is
\* (^|[^\d])(\d{1,16})(?:\.(\d{1,16}))?(?:\.(\d{1,16}))?(?:$|[^\d]), and the
\* result is parse(`${major}.${minor || '0'}.${patch || '0'}`).  Runs of more
\* than 16 digits do not occur in the model.
coerce(version) ==
  LET i == FirstDigitRun(version)
      major == DigitRun(version, i)
      j == i + Len(major)
      hasMinor == j + 1 <= Len(version) /\ version[j] = "." /\ version[j + 1] \in Digit
      minor == IF hasMinor THEN DigitRun(version, j + 1) ELSE <<"0">>
      k == IF hasMinor THEN j + 1 + Len(minor) ELSE j
      hasPatch == /\ hasMinor
                  /\ k + 1 <= Len(version)
                  /\ version[k] = "."
                  /\ version[k + 1] \in Digit
      patch == IF hasPatch THEN DigitRun(version, k + 1) ELSE <<"0">>
  IN IF i = 0 THEN NotSemVer
     ELSE parse(major \o <<".">> \o minor \o <<".">> \o patch)

-----------------------------------------------------------------------------
(* Node's path module (posix) *)

\* p without its trailing slashes.
RECURSIVE StripTrailingSlashes(_)
StripTrailingSlashes(p) ==
  IF p # <<>> /\ p[Len(p)] = "/"
  THEN StripTrailingSlashes(SubSeq(p, 1, Len(p) - 1))
  ELSE p

\* path.basename(p): the last component, trailing slashes ignored.
basename(p) ==
  LET t == StripTrailingSlashes(p)
      parts == Split(t, "/")
  IN parts[Len(parts)]

\* path.extname(p): from the last dot of the last component; empty when the
\* component has no dot, starts with its only dot, or is '..'.
extname(p) ==
  LET b == basename(p)
      dots == {i \in 1..Len(b) : b[i] = "."}
      startDot == CHOOSE i \in dots : \A j \in dots : j <= i
  IN IF dots = {} THEN <<>>
     ELSE IF startDot = 1 THEN <<>>
     ELSE IF b = <<".", ".">> THEN <<>>
     ELSE SubSeq(b, startDot, Len(b))

-----------------------------------------------------------------------------
(* src/util.ts *)

\* A variant of extractJdkFile that infers the format from path.extname alone.
extractJdkFileExtnameOnly(toolPath, extension) ==
  LET inferred == Substring(extname(toolPath), 1)
      ext == IF extension.kind = "string" /\ extension.value # <<>>
             THEN extension.value
             ELSE inferred
  IN IF ext \in {<<"t", "a", "r", ".", "g", "z">>, <<"t", "a", "r">>}
       THEN "extractTar"
     ELSE IF ext = <<"z", "i", "p">> THEN "extractZip"
     ELSE "extract7z"

\* extractJdkFile(toolPath, extension): the tool-cache extractor it awaits.
\* extension is Null when the argument is omitted.
extractJdkFile(toolPath, extension) ==
  LET inferred == IF EndsWith(toolPath, <<".", "t", "a", "r", ".", "g", "z">>)
                  THEN <<"t", "a", "r", ".", "g", "z">>
                  ELSE Substring(extname(toolPath), 1)
      ext == IF extension.kind = "string" /\ extension.value # <<>>
             THEN extension.value
             ELSE inferred
  IN IF ext \in {<<"t", "a", "r", ".", "g", "z">>, <<"t", "a", "r">>}
       THEN "extractTar"
     ELSE IF ext = <<"z", "i", "p">> THEN "extractZip"
     ELSE "extract7z"

\* A variant of getDownloadArchiveExtension with the two extensions swapped.
getDownloadArchiveExtensionSwapped(processPlatform) ==
  IF processPlatform = "win32" THEN <<"t", "a", "r", ".", "g", "z">>
  ELSE <<"z", "i", "p">>

\* getDownloadArchiveExtension().
getDownloadArchiveExtension(processPlatform) ==
  IF processPlatform = "win32" THEN <<"z", "i", "p">>
  ELSE <<"t", "a", "r", ".", "g", "z">>

\* isVersionSatisfies(range, version).
isVersionSatisfies(range, version) ==
  IF valid(range).kind = "string" /\ parse(range).ok /\ Len(parse(range).build) > 0
  THEN IF compareBuild(range, version).kind = "throws" THEN Throws
       ELSE Bool(compareBuild(range, version).value = 0)
  ELSE Bool(satisfies(version, range))

\* The characters of s from index i up to the next white space or the end.
NonSpaceRun(s, i) ==
  SubSeq(s, i, i + FirstIn(SubSeq(s, i, Len(s)), WhiteSpace) - 2)

\* Index of the first character from index i on that is not white space
\* (Len(s) + 1 when there is none).
SkipSpace(s, i) ==
  IF \E k \in i..Len(s) : s[k] \notin WhiteSpace
  THEN CHOOSE k \in i..Len(s) :
         s[k] \notin WhiteSpace /\ \A j \in i..(k - 1) : s[j] \in WhiteSpace
  ELSE Len(s) + 1

\* The match of the version-file expression
\*   /(?<version>(?<=(^|\s|-))(\d+\S*))(\s|$)/
\* its group 'version', or the empty string without a match: the leftmost
\* digit that starts the content or follows white space or '-', up to the
\* next white space.
matchVersionFile(content) ==
  LET starts == {i \in 1..Len(content) :
                   /\ content[i] \in Digit
                   /\ (i = 1 \/ content[i - 1] \in WhiteSpace \cup {"-"})}
  IN IF starts = {} THEN <<>>
     ELSE NonSpaceRun(content, CHOOSE i \in starts : \A j \in starts : i <= j)

\* s after a greedy (c\d+)? at its start.
OptDigits(s, c) ==
  IF Len(s) >= 2 /\ s[1] = c /\ s[2] \in Digit
  THEN SubSeq(s, 2 + Len(DigitRun(s, 2)), Len(s))
  ELSE s

\* s is (\d+)(\.\d+)?(\.\d+)?(\+\d+)?(-ea(\.\d+)?)? and nothing else.
IsToolVersion(s) ==
  /\ s # <<>>
  /\ s[1] \in Digit
  /\ LET r1 == SubSeq(s, 1 + Len(DigitRun(s, 1)), Len(s))
         r4 == OptDigits(OptDigits(OptDigits(r1, "."), "."), "+")
         r5 == IF StartsWith(r4, <<"-", "e", "a">>)
               THEN OptDigits(Substring(r4, 3), ".")
               ELSE r4
     IN r5 = <<>>

\* The group 'version' for the token content[q..e-1] that follows java\s+:
\* (?:\S*-)? is greedy, so the last '-' after which v?version fits is taken,
\* and only then the token as a whole.  Empty when nothing fits.
ToolVersionOfToken(content, q, e) ==
  LET afterV(a) == IF a < e /\ content[a] = "v" THEN a + 1 ELSE a
      fits(a) == IsToolVersion(SubSeq(content, afterV(a), e - 1))
      dashes == {d \in q..(e - 1) : content[d] = "-" /\ fits(d + 1)}
  IN IF dashes # {}
       THEN LET d == CHOOSE x \in dashes : \A y \in dashes : y <= x
            IN SubSeq(content, afterV(d + 1), e - 1)
     ELSE IF fits(q) THEN SubSeq(content, afterV(q), e - 1)
     ELSE <<>>

\* The group 'version' of a match of the .tool-versions expression that
\* starts at the line start i, or the empty string.
ToolVersionAt(content, i) ==
  LET q == SkipSpace(content, i + 4)
      e == q + Len(NonSpaceRun(content, q))
  IN IF /\ i + 4 <= Len(content)
        /\ SubSeq(content, i, i + 3) = <<"j", "a", "v", "a">>
        /\ content[i + 4] \in WhiteSpace
        /\ q <= Len(content)
        /\ (e = Len(content) + 1 \/ content[e] \in LineTerminator)
     THEN ToolVersionOfToken(content, q, e)
     ELSE <<>>

\* The match of the .tool-versions expression
\*   /^(java\s+)(?:\S*-)?v?(?<version>(\d+)(\.\d+)?(\.\d+)?(\+\d+)?(-ea(\.\d+)?)?)$/m
\* its group 'version' at the first line that matches, or the empty string.
matchToolVersions(content) ==
  LET lines == {i \in 1..Len(content) :
                  /\ (i = 1 \/ content[i - 1] \in LineTerminator)
                  /\ ToolVersionAt(content, i) # <<>>}
  IN IF lines = {} THEN <<>>
     ELSE ToolVersionAt(content, CHOOSE i \in lines : \A j \in lines : i <= j)

\* A variant of avoidOldNotation that drops one character instead of two.
avoidOldNotationKeepsDot(content) ==
  IF StartsWith(content, <<"1", ".">>) THEN Substring(content, 1) ELSE content

\* avoidOldNotation(content).
avoidOldNotation(content) ==
  IF StartsWith(content, <<"1", ".">>) THEN Substring(content, 2) ELSE content

\* constants.ts DISTRIBUTIONS_ONLY_MAJOR_VERSION.
DISTRIBUTIONS_ONLY_MAJOR_VERSION == {"corretto"}

\* semver.major(a).toString() for a SemVer or a string a; throws when a is
\* not a valid version.
majorToString(a) ==
  IF a.kind = "semver" THEN Str(NumToString(a.value.major))
  ELSE IF SemVer(a.value).ok THEN Str(NumToString(SemVer(a.value).major))
  ELSE Throws

\* A variant of lines 127-129 that keeps the raw version instead of the
\* tentative one.
rangeVersionRaw(tentativeVersion) ==
  LET rawVersion == Split(tentativeVersion, "-")[1]
  IN IF validRange(rawVersion) THEN Str(rawVersion)
     ELSE IF coerce(tentativeVersion).ok
       THEN [kind |-> "semver", value |-> coerce(tentativeVersion)]
     ELSE Null

\* Lines 127-129: the version is the tentative version itself when the raw
\* version is a range, and the coerced SemVer (or null) otherwise.
rangeVersion(tentativeVersion) ==
  LET rawVersion == Split(tentativeVersion, "-")[1]
  IN IF validRange(rawVersion) THEN Str(tentativeVersion)
     ELSE IF coerce(tentativeVersion).ok
       THEN [kind |-> "semver", value |-> coerce(tentativeVersion)]
     ELSE Null

\* version.toString() of line 139.
versionToString(version) ==
  IF version.kind = "semver" THEN Str(format(version.value)) ELSE version

\* Lines 134-137: semver.major(semver.coerce(version) ?? version).toString().
onlyMajor(version) ==
  IF version.kind = "semver" THEN majorToString(version)
  ELSE IF coerce(version.value).ok
    THEN majorToString([kind |-> "semver", value |-> coerce(version.value)])
  ELSE majorToString(version)

\* getVersionFromFileContent(content, distributionName, versionFile).
getVersionFromFileContent(content, distributionName, versionFile) ==
  LET versionFileName == basename(versionFile)
      fileContent ==
        IF versionFileName = <<".", "t", "o", "o", "l", "-", "v", "e", "r", "s",
                               "i", "o", "n", "s">>
        THEN matchToolVersions(content)
        ELSE matchVersionFile(content)
      version == rangeVersion(avoidOldNotation(fileContent))
  IN IF fileContent = <<>> THEN Null
     ELSE IF version.kind = "null" THEN Null
     ELSE IF version.kind = "string" /\ version.value = <<>> THEN Null
     ELSE IF distributionName \in DISTRIBUTIONS_ONLY_MAJOR_VERSION
       THEN onlyMajor(version)
     ELSE versionToString(version)

-----------------------------------------------------------------------------
(* Calls of the pure functions of util.ts on bounded inputs *)

\* The variables of the installer, at rest while util.ts is called directly.
InstallerAtRest ==
  /\ platform = "linux"
  /\ fsDirs = {}
  /\ pc = "idle"
  /\ req = [kind |-> "none"]
  /\ steps = <<>>
  /\ outcome = [kind |-> "none"]
  /\ downloads = <<>>
  /\ installed = <<>>
  /\ failed = {}
  /\ runs = 0

installerVars ==
  <<platform, fsDirs, pc, req, steps, outcome, downloads, installed, failed, runs>>

\* Bounds of the version strings handed to isVersionSatisfies.
MaxPatch == 1
MaxBuild == 1
MaxBuildIds == 2

\* Sequences of 1..n elements of S.
SeqsUpTo(S, n) == UNION {[1..k -> S] : k \in 1..n}

\* Build identifiers: a number, written with and without a leading zero.
BuildIdentifiers ==
  {NumToString(n) : n \in 1..MaxBuild} \cup {<<"0">> \o NumToString(n) : n \in 1..MaxBuild}

BuildSuffixes ==
  {<<>>} \cup {<<"+">> \o Join(b, <<".">>) : b \in SeqsUpTo(BuildIdentifiers, MaxBuildIds)}

\* Valid exact versions 1.2.p[-ea][+build], written with and without a v.
ExactVersions ==
  {v \o <<"1", ".", "2", ".">> \o NumToString(p) \o pre \o b :
     v \in {<<>>, <<"v">>}, p \in 0..MaxPatch,
     pre \in {<<>>, <<"-", "e", "a">>}, b \in BuildSuffixes}

\* Ranges: the exact versions, and x-ranges.
SomeRanges ==
  ExactVersions \cup {<<"1", ".", "2">>, <<"1", ".", "x">>, <<"1">>, <<>>}

InitSatisfies ==
  /\ call \in {[fn |-> "isVersionSatisfies", range |-> r, version |-> v] :
                 r \in SomeRanges, v \in ExactVersions}
  /\ ret = Pending
  /\ InstallerAtRest

CallIsVersionSatisfies ==
  /\ call.fn = "isVersionSatisfies"
  /\ ret = Pending
  /\ ret' = isVersionSatisfies(call.range, call.version)
  /\ UNCHANGED <<call, installerVars>>

NextSatisfies == CallIsVersionSatisfies

SpecSatisfies == InitSatisfies /\ [][NextSatisfies]_vars

\* Bound of the version tokens written into a version file: the number of
\* dot-separated components.
MaxParts == 3

\* The first component of a token, and the components after it.
FirstComponents == {<<"1">>, <<"8">>, <<"1", "1">>, <<"x">>}
LaterComponents == {<<>>, <<"0">>, <<"2">>, <<"8">>, <<"x">>}

VersionTokens ==
  {Join(<<first>> \o later, <<".">>) \o suffix :
     first \in FirstComponents,
     later \in {<<>>} \cup SeqsUpTo(LaterComponents, MaxParts - 1),
     suffix \in {<<>>, <<"-", "e", "a">>, <<"+", "7">>}}

\* What a version file holds around the token: nothing, a .tool-versions
\* line, a line with a vendor prefix, a vendor prefix and a trailing word.
Frames ==
  {<<<<>>, <<>>>>,
   <<<<"j", "a", "v", "a", " ">>, <<"\n">>>>,
   <<<<"j", "a", "v", "a", " ", "j", "d", "k", "-">>, <<>>>>,
   <<<<"j", "d", "k", "-">>, <<" ", "l", "t", "s">>>>}

FileContents == {f[1] \o t \o f[2] : f \in Frames, t \in VersionTokens}

DistributionNames == {"temurin", "corretto"}

VersionFiles ==
  {<<".", "j", "a", "v", "a", "-", "v", "e", "r", "s", "i", "o", "n">>,
   <<"a", "/", ".", "t", "o", "o", "l", "-", "v", "e", "r", "s", "i", "o", "n", "s">>}

InitVersionFile ==
  /\ call \in {[fn |-> "getVersionFromFileContent", content |-> c,
                distributionName |-> d, versionFile |-> f] :
                 c \in FileContents, d \in DistributionNames, f \in VersionFiles}
  /\ ret = Pending
  /\ InstallerAtRest

CallGetVersionFromFileContent ==
  /\ call.fn = "getVersionFromFileContent"
  /\ ret = Pending
  /\ ret' = getVersionFromFileContent(call.content, call.distributionName,
                                      call.versionFile)
  /\ UNCHANGED <<call, installerVars>>

NextVersionFile == CallGetVersionFromFileContent

SpecVersionFile == InitVersionFile /\ [][NextVersionFile]_vars

\* Download paths: a directory, a stem and an extension.
ToolPaths ==
  {dir \o stem \o ext :
     dir \in {<<>>, <<"/", "t", "/">>, <<"/", "t", ".", "d", "/">>},
     stem \in {<<>>, <<"a">>, <<"a", ".", "b">>},
     ext \in {<<>>, <<".">>, <<".", "z", "i", "p">>, <<".", "t", "a", "r">>,
              <<".", "t", "a", "r", ".", "g", "z">>, <<".", "g", "z">>,
              <<".", "7", "z">>, <<".", "z", "i", "p", "/">>}}

\* The extension argument: omitted, or a string.
ExtensionArguments ==
  {Null} \cup {Str(e) : e \in {<<>>, <<"z", "i", "p">>, <<"t", "a", "r">>,
                               <<"t", "a", "r", ".", "g", "z">>, <<"7", "z">>,
                               <<"g", "z">>}}

InitExtract ==
  /\ call \in {[fn |-> "extractJdkFile", toolPath |-> t, extension |-> e] :
                 t \in ToolPaths, e \in ExtensionArguments}
  /\ ret = Pending
  /\ InstallerAtRest

CallExtractJdkFile ==
  /\ call.fn = "extractJdkFile"
  /\ ret = Pending
  /\ ret' = [kind |-> "extractor",
             value |-> extractJdkFile(call.toolPath, call.extension)]
  /\ UNCHANGED <<call, installerVars>>

NextExtract == CallExtractJdkFile

SpecExtract == InitExtract /\ [][NextExtract]_vars

-----------------------------------------------------------------------------
(* The tool cache and the acquisition pipeline (spec section 4.4) *)

\* Bound on the installer calls of one behaviour.
MaxRuns == 3

\* The variables of the pure-function calls, at rest while the installer runs.
UtilAtRest == call = [fn |-> "none"] /\ ret = Pending

ToolNames == {"Java_GraalVM_jdk"}
ResolvedVersions == {"17.0.1", "21.0.2"}
CacheArchitectures == {"x64", "aarch64"}

\* A cache key: (tool name, resolved version, architecture).
CacheKeys == ToolNames \X ResolvedVersions \X CacheArchitectures

\* process.env['RUNNER_TOOL_CACHE'] ?? ''
toolcacheRoot == "/opt/hostedtoolcache"

\* path.join(...segments) of segments without separators: the non-empty ones.
pathJoin(segments) == SelectSeq(segments, LAMBDA x : x # "")

\* fs.existsSync(path) under the tool cache.
existsSync(path) == path \in fsDirs

\* A variant of getToolcachePath that joins architecture before version.
getToolcachePathSwapped(toolName, version, architecture) ==
  LET fullPath == pathJoin(<<toolcacheRoot, toolName, architecture, version>>)
  IN IF existsSync(fullPath) THEN [kind |-> "path", value |-> fullPath] ELSE Null

\* A variant of getToolcachePath with the branches of the conditional swapped.
getToolcachePathInverted(toolName, version, architecture) ==
  LET fullPath == pathJoin(<<toolcacheRoot, toolName, version, architecture>>)
  IN IF existsSync(fullPath) THEN Null ELSE [kind |-> "path", value |-> fullPath]

\* A variant of getToolcachePath that leaves the architecture out of the path.
getToolcachePathNoArch(toolName, version, architecture) ==
  LET fullPath == pathJoin(<<toolcacheRoot, toolName, version>>)
  IN IF \E p \in fsDirs : SubSeq(p, 1, Len(fullPath)) = fullPath
     THEN [kind |-> "path",
           value |-> pathJoin(<<toolcacheRoot, toolName, version, architecture>>)]
     ELSE Null

\* getToolcachePath(toolName, version, architecture).
getToolcachePath(toolName, version, architecture) ==
  LET fullPath == pathJoin(<<toolcacheRoot, toolName, version, architecture>>)
  IN IF existsSync(fullPath) THEN [kind |-> "path", value |-> fullPath] ELSE Null

\* ToolCache.store(toolName, version, architecture, sourcePath): the
\* cache-owned directory it returns.
cacheDir(toolName, version, architecture) ==
  pathJoin(<<toolcacheRoot, toolName, version, architecture>>)

\* The local file the download collaborator returns.
downloadedArchive == <<"/", "t", "/", "a">>

Platforms == {"linux", "darwin", "win32"}

PipelineOrder == <<"CHECK_CACHE", "DOWNLOAD", "EXTRACT", "NORMALIZE", "STORE_CACHE">>

Init ==
  /\ UtilAtRest
  /\ platform \in Platforms
  /\ fsDirs \in SUBSET {cacheDir(k[1], k[2], k[3]) : k \in CacheKeys}
  /\ pc = "idle"
  /\ req = [kind |-> "none"]
  /\ steps = <<>>
  /\ outcome = [kind |-> "none"]
  /\ downloads = [k \in CacheKeys |-> 0]
  /\ installed = [k \in CacheKeys |-> Null]
  /\ failed = {}
  /\ runs = 0

Key(r) == <<r.tool, r.version, r.architecture>>

\* acquire(artifact, toolIdentity) is called.
StartAcquire ==
  /\ pc = "idle"
  /\ runs < MaxRuns
  /\ \E k \in CacheKeys :
       req' = [kind |-> "acquire", tool |-> k[1], version |-> k[2],
               architecture |-> k[3], url |-> <<"url", k[2], k[3]>>]
  /\ pc' = "CHECK_CACHE"
  /\ steps' = <<>>
  /\ outcome' = [kind |-> "none"]
  /\ runs' = runs + 1
  /\ UNCHANGED <<call, ret, platform, fsDirs, downloads, installed, failed>>

\* The acquisition of req ends with a path.
Succeed(path, hit) ==
  /\ outcome' = [kind |-> "ok", version |-> req.version, path |-> path, hit |-> hit]
  /\ installed' = IF installed[Key(req)] = Null
                  THEN [installed EXCEPT ![Key(req)] = [kind |-> "path", value |-> path]]
                  ELSE installed
  /\ failed' = failed \ {Key(req)}
  /\ pc' = "idle"

\* The acquisition of req ends with an error surfaced to the caller.
Fail(error) ==
  /\ outcome' = [kind |-> "error", error |-> error]
  /\ failed' = failed \cup {Key(req)}
  /\ pc' = "idle"
  /\ UNCHANGED installed

\* CHECK_CACHE, on a hit: short-circuit with the cached path.
CheckCacheHit ==
  /\ pc = "CHECK_CACHE"
  /\ getToolcachePath(req.tool, req.version, req.architecture) # Null
  /\ steps' = Append(steps, [op |-> "CHECK_CACHE", ok |-> TRUE,
                             present |-> existsSync(cacheDir(req.tool, req.version,
                                                             req.architecture))])
  /\ Succeed(getToolcachePath(req.tool, req.version, req.architecture).value, TRUE)
  /\ UNCHANGED <<call, ret, platform, fsDirs, req, downloads, runs>>

\* CHECK_CACHE, on a miss: go on to DOWNLOAD.
CheckCacheMiss ==
  /\ pc = "CHECK_CACHE"
  /\ getToolcachePath(req.tool, req.version, req.architecture) = Null
  /\ steps' = Append(steps, [op |-> "CHECK_CACHE", ok |-> TRUE,
                             present |-> existsSync(cacheDir(req.tool, req.version,
                                                             req.architecture))])
  /\ pc' = "DOWNLOAD"
  /\ UNCHANGED <<call, ret, platform, fsDirs, req, outcome, downloads, installed,
                 failed, runs>>

\* DOWNLOAD: the download collaborator fetches the artifact URL, or fails.
Download ==
  /\ pc = "DOWNLOAD"
  /\ downloads' = [downloads EXCEPT ![Key(req)] = @ + 1]
  /\ \E ok \in BOOLEAN :
       /\ steps' = Append(steps, [op |-> "DOWNLOAD", ok |-> ok, url |-> req.url])
       /\ IF ok THEN pc' = "EXTRACT" /\ UNCHANGED <<outcome, installed, failed>>
          ELSE Fail("DownloadFailure")
  /\ UNCHANGED <<call, ret, platform, fsDirs, req, runs>>

\* EXTRACT: extractJdkFile on the downloaded file with the platform's
\* archive extension; the extractor succeeds or fails.
Extract ==
  /\ pc = "EXTRACT"
  /\ \E ok \in BOOLEAN :
       /\ steps' = Append(steps,
            [op |-> "EXTRACT", ok |-> ok,
             via |-> extractJdkFile(downloadedArchive,
                                    Str(getDownloadArchiveExtension(platform)))])
       /\ IF ok THEN pc' = "NORMALIZE" /\ UNCHANGED <<outcome, installed, failed>>
          ELSE Fail("ExtractionFailure")
  /\ UNCHANGED <<call, ret, platform, fsDirs, req, downloads, runs>>

\* NORMALIZE: locate the sole nested directory; on Windows a rename may be
\* needed first.  Listing or renaming may fail.
Normalize ==
  /\ pc = "NORMALIZE"
  /\ \E ok \in BOOLEAN, rename \in IF platform = "win32" THEN BOOLEAN ELSE {FALSE} :
       /\ steps' = Append(steps, [op |-> "NORMALIZE", ok |-> ok, rename |-> rename])
       /\ IF ok THEN pc' = "STORE_CACHE" /\ UNCHANGED <<outcome, installed, failed>>
          ELSE Fail("NormalizeFailure")
  /\ UNCHANGED <<call, ret, platform, fsDirs, req, downloads, runs>>

\* STORE_CACHE: the tool cache stores the installation root under the key and
\* returns its own path, atomically; a failed store commits nothing.
StoreCache ==
  /\ pc = "STORE_CACHE"
  /\ \E ok \in BOOLEAN :
       /\ steps' = Append(steps,
            [op |-> "STORE_CACHE", ok |-> ok,
             returned |-> cacheDir(req.tool, req.version, req.architecture)])
       /\ IF ok
          THEN /\ fsDirs' = fsDirs \cup {cacheDir(req.tool, req.version,
                                                  req.architecture)}
               /\ Succeed(cacheDir(req.tool, req.version, req.architecture), FALSE)
          ELSE Fail("StoreFailure") /\ UNCHANGED fsDirs
  /\ UNCHANGED <<call, ret, platform, req, downloads, runs>>

Next ==
  \/ StartAcquire
  \/ CheckCacheHit
  \/ CheckCacheMiss
  \/ Download
  \/ Extract
  \/ Normalize
  \/ StoreCache

Spec == Init /\ [][Next]_vars

-----------------------------------------------------------------------------
(* The artifact locator of the GraalVM distribution (spec section 4.3) *)

\* The distribution's floor: the lowest major version it offers.
GRAALVM_MIN_VERSION == 17

\* Bound of the requested major versions: how far around the floor they go.
MajorSpan == 2

RequestedMajors ==
  {8, 11} \cup (GRAALVM_MIN_VERSION - MajorSpan)..(GRAALVM_MIN_VERSION + MajorSpan)

RequestedArchitectures == {"x64", "aarch64", "arm32"}
PackageTypes == {"jdk", "jre"}
HttpStatuses == {200, 404, 500}

\* The architectures and package types the distribution offers.
SupportedArchitectures == {"x64", "aarch64"}
SupportedPackageTypes == {"jdk"}

\* The normalized operating-system name of a process.platform.
getPlatform(processPlatform) ==
  IF processPlatform = "win32" THEN "windows"
  ELSE IF processPlatform = "darwin" THEN "macos"
  ELSE processPlatform

\* The one candidate URL of a major version: the templated "latest" URL.
latestUrl(major, os, arch, extension) ==
  <<"https://download.oracle.com/graalvm/", major, "/latest/graalvm-jdk-", major,
    "_", os, "-", arch, "_bin.", extension>>

\* A variant of the eligibility rules with the version floor one too low.
eligibilityErrorLowFloor(r) ==
  IF r.architecture \notin SupportedArchitectures THEN "UnsupportedArchitecture"
  ELSE IF r.packageType \notin SupportedPackageTypes THEN "UnsupportedPackageType"
  ELSE IF ToNumber(Split(r.version, ".")[1]) < GRAALVM_MIN_VERSION - 1
    THEN "UnsupportedVersion"
  ELSE "none"

\* The eligibility rules: the error a request fails with, or "none".
eligibilityError(r) ==
  IF r.architecture \notin SupportedArchitectures THEN "UnsupportedArchitecture"
  ELSE IF r.packageType \notin SupportedPackageTypes THEN "UnsupportedPackageType"
  ELSE IF ToNumber(Split(r.version, ".")[1]) < GRAALVM_MIN_VERSION
    THEN "UnsupportedVersion"
  ELSE "none"

InitLocate ==
  /\ UtilAtRest
  /\ platform \in Platforms
  /\ fsDirs = {}
  /\ pc = "idle"
  /\ req = [kind |-> "none"]
  /\ steps = <<>>
  /\ outcome = [kind |-> "none"]
  /\ downloads = <<>>
  /\ installed = <<>>
  /\ failed = {}
  /\ runs = 0

\* locate(versionSpec, platformKey) is called with a major version.
StartLocate ==
  /\ pc = "idle"
  /\ runs < MaxRuns
  /\ \E major \in RequestedMajors, arch \in RequestedArchitectures,
        pkg \in PackageTypes :
       req' = [kind |-> "locate", version |-> NumToString(major),
               architecture |-> arch, packageType |-> pkg]
  /\ pc' = "ELIGIBILITY"
  /\ steps' = <<>>
  /\ outcome' = [kind |-> "none"]
  /\ runs' = runs + 1
  /\ UNCHANGED <<call, ret, platform, fsDirs, downloads, installed, failed>>

\* A request that violates an eligibility rule fails at once.
Reject ==
  /\ pc = "ELIGIBILITY"
  /\ eligibilityError(req) # "none"
  /\ outcome' = [kind |-> "error", error |-> eligibilityError(req)]
  /\ pc' = "idle"
  /\ UNCHANGED <<call, ret, platform, fsDirs, req, steps, downloads, installed,
                 failed, runs>>

\* An eligible request goes on to the probe.
Accept ==
  /\ pc = "ELIGIBILITY"
  /\ eligibilityError(req) = "none"
  /\ pc' = "PROBE"
  /\ UNCHANGED <<call, ret, platform, fsDirs, req, steps, outcome, downloads,
                 installed, failed, runs>>

\* The HEAD probe of the one candidate URL, and the result its status gives.
Probe ==
  /\ pc = "PROBE"
  /\ \E status \in HttpStatuses :
       LET url == latestUrl(req.version, getPlatform(platform), req.architecture,
                            getDownloadArchiveExtension(platform))
       IN /\ steps' = Append(steps, [op |-> "HEAD", url |-> url, status |-> status])
          /\ outcome' = IF status = 200
                        THEN [kind |-> "ok", url |-> url, version |-> req.version]
                        ELSE [kind |-> "error", error |-> "ProbeFailure"]
  /\ pc' = "idle"
  /\ UNCHANGED <<call, ret, platform, fsDirs, req, downloads, installed, failed,
                 runs>>

NextLocate ==
  \/ StartLocate
  \/ Reject
  \/ Accept
  \/ Probe

SpecLocate == InitLocate /\ [][NextLocate]_vars

-----------------------------------------------------------------------------
(* Properties of isVersionSatisfies, checked under SpecSatisfies *)

Returned == ret # Pending

\* The range of the call is a valid exact version that carries build metadata.
RangeHasBuild == SemVer(call.range).ok /\ SemVer(call.range).build # <<>>

\* C1: for a range r that is a valid exact version with build metadata and a
\* valid exact version v, isVersionSatisfies(r, v) is true if and only if v
\* equals r, build metadata included (the same major, minor, patch,
\* prerelease identifiers and build identifiers; a leading v is not counted
\* as a difference).
C1_TrueIffExactlyEqual ==
  (call.fn = "isVersionSatisfies" /\ Returned /\ RangeHasBuild
     /\ SemVer(call.version).ok)
    => ret = Bool(SemVer(call.version) = SemVer(call.range))

-----------------------------------------------------------------------------
(* Properties of getVersionFromFileContent, checked under SpecVersionFile *)

ToolVersionsName ==
  <<".", "t", "o", "o", "l", "-", "v", "e", "r", "s", "i", "o", "n", "s">>

\* What the claims say of the contents "1.8" and "11.0.2".
LegacyAndFullVersion ==
  /\ call.content = <<"1", ".", "8">> => ret = Str(<<"8">>)
  /\ call.content = <<"1", "1", ".", "0", ".", "2">> =>
       ret = IF call.distributionName \in DISTRIBUTIONS_ONLY_MAJOR_VERSION
             THEN Str(<<"1", "1">>)
             ELSE Str(<<"1", "1", ".", "0", ".", "2">>)

\* C2 as stated: the content "1.8" gives "8" for every distribution name and
\* every version-file name, and "11.0.2" gives "11.0.2", or "11" for a
\* major-only distribution.
C2_EveryVersionFile ==
  (call.fn = "getVersionFromFileContent" /\ Returned) => LegacyAndFullVersion

\* C2 amended: the content "1.8" gives "8" for every distribution name, and
\* "11.0.2" gives "11.0.2", or "11" for a major-only distribution, for every
\* version file whose name is not .tool-versions; for a .tool-versions file,
\* whose lines read "java <version>", both contents give null.
C2_PlainVersionFile ==
  (call.fn = "getVersionFromFileContent" /\ Returned) =>
    IF basename(call.versionFile) # ToolVersionsName
    THEN LegacyAndFullVersion
    ELSE call.content \in {<<"1", ".", "8">>, <<"1", "1", ".", "0", ".", "2">>}
           => ret = Null

\* C2 witness: "11.0.2" was read for a major-only distribution and gave "11".
C2_Witness ==
  /\ call.fn = "getVersionFromFileContent"
  /\ call.content = <<"1", "1", ".", "0", ".", "2">>
  /\ call.distributionName \in DISTRIBUTIONS_ONLY_MAJOR_VERSION
  /\ basename(call.versionFile) # ToolVersionsName
  /\ ret = Str(<<"1", "1">>)

\* C8: getVersionFromFileContent never throws: for every content,
\* distribution name and version-file name it returns null or a string.
C8_NeverThrows ==
  (call.fn = "getVersionFromFileContent" /\ Returned)
    => ret.kind \in {"null", "string"}

\* The token the call extracts from the content, after the legacy rewrite.
TokenOfCall ==
  avoidOldNotation(IF basename(call.versionFile) = ToolVersionsName
                   THEN matchToolVersions(call.content)
                   ELSE matchVersionFile(call.content))

\* The text of a token before its first '-'.
BeforeFirstDash(t) == SubSeq(t, 1, FirstIn(t, {"-"}) - 1)

\* A version is matched in the content and the distribution is not
\* major-only.
FullVersionCase ==
  /\ call.fn = "getVersionFromFileContent"
  /\ Returned
  /\ call.distributionName \notin DISTRIBUTIONS_ONLY_MAJOR_VERSION
  /\ (IF basename(call.versionFile) = ToolVersionsName
      THEN matchToolVersions(call.content)
      ELSE matchVersionFile(call.content)) # <<>>

\* The token coerced and written out, or null when it cannot be coerced.
CoercedToken ==
  IF coerce(TokenOfCall).ok THEN Str(format(coerce(TokenOfCall))) ELSE Null

\* C10 as stated: for a distribution that is not major-only, if the token
\* stripped of the text after its first '-' is a valid range the function
\* returns the stripped string, and otherwise the token coerced.  (Read with
\* null allowed for an empty token and for a token that cannot be coerced.)
C10_ReturnsStripped ==
  (FullVersionCase /\ TokenOfCall # <<>>) =>
    IF validRange(BeforeFirstDash(TokenOfCall))
    THEN ret = Str(BeforeFirstDash(TokenOfCall))
    ELSE ret = CoercedToken

\* C10 amended: for a distribution that is not major-only, if the token
\* stripped of the text after its first '-' is a valid range the function
\* returns the token itself, the text after the '-' kept (null when the
\* token is empty); otherwise it returns the token coerced to
\* major.minor.patch with missing components zero, or null when it cannot
\* be coerced.
C10_ReturnsToken ==
  /\ FullVersionCase =>
       IF validRange(BeforeFirstDash(TokenOfCall))
       THEN ret = IF TokenOfCall = <<>> THEN Null ELSE Str(TokenOfCall)
       ELSE ret = CoercedToken
  /\ (call.fn = "getVersionFromFileContent" /\ Returned
        /\ call.distributionName \notin DISTRIBUTIONS_ONLY_MAJOR_VERSION
        /\ basename(call.versionFile) # ToolVersionsName) =>
       /\ call.content = <<"8", "-", "e", "a">> => ret = Str(<<"8", "-", "e", "a">>)
       /\ call.content = <<"8", "+", "7">> => ret = Str(<<"8", ".", "0", ".", "0">>)
       /\ call.content = <<"1", ".">> => ret = Null

\* C10 witness: a token with a '-' suffix whose stripped text is a valid
\* range was returned for a distribution that is not major-only.
C10_Witness ==
  /\ FullVersionCase
  /\ TokenOfCall = <<"8", ".", "0", "-", "e", "a">>
  /\ validRange(BeforeFirstDash(TokenOfCall))
  /\ ret = Str(<<"8", ".", "0", "-", "e", "a">>)

-----------------------------------------------------------------------------
(* Properties of extractJdkFile, checked under SpecExtract *)

\* The extractor of a format.
ExtractorOf(fmt) ==
  IF fmt \in {<<"t", "a", "r">>, <<"t", "a", "r", ".", "g", "z">>} THEN "extractTar"
  ELSE IF fmt = <<"z", "i", "p">> THEN "extractZip"
  ELSE "extract7z"

\* The text after the last dot of a name; empty when it has no dot.
AfterLastDot(name) ==
  LET dots == {i \in 1..Len(name) : name[i] = "."}
  IN IF dots = {} THEN <<>>
     ELSE SubSeq(name, (CHOOSE i \in dots : \A j \in dots : j <= i) + 1, Len(name))

\* The text after the last dot of a name, a dot that begins the name not
\* counted; empty when there is no such dot.
AfterLastInnerDot(name) ==
  LET dots == {i \in 2..Len(name) : name[i] = "."}
  IN IF dots = {} THEN <<>>
     ELSE SubSeq(name, (CHOOSE i \in dots : \A j \in dots : j <= i) + 1, Len(name))

\* The extension argument of the call is a non-empty string.
ExtensionGiven == call.extension.kind = "string" /\ call.extension.value # <<>>

\* The format of the call, where inferred is the text taken from a name that
\* does not end with .tar.gz.
FormatOfCall(inferred) ==
  IF ExtensionGiven THEN call.extension.value
  ELSE IF EndsWith(call.toolPath, <<".", "t", "a", "r", ".", "g", "z">>)
    THEN <<"t", "a", "r", ".", "g", "z">>
  ELSE inferred

\* C9 as stated: the format is the extension argument when one is given and
\* is otherwise inferred from the file name, 'tar.gz' when the name ends with
\* .tar.gz and else the text after the last dot; 'tar' and 'tar.gz' go to the
\* tar extractor, 'zip' to the zip extractor, every other format to 7z.
C9_AfterLastDot ==
  (call.fn = "extractJdkFile" /\ Returned)
    => ret.value = ExtractorOf(FormatOfCall(AfterLastDot(basename(call.toolPath))))

\* C9 amended: as stated, where the file name is the last component of the
\* path, a dot that begins it does not count (a name such as .zip has no
\* extension and goes to 7z), and an empty extension argument counts as not
\* given.
C9_AfterLastInnerDot ==
  (call.fn = "extractJdkFile" /\ Returned)
    => ret.value = ExtractorOf(FormatOfCall(AfterLastInnerDot(basename(call.toolPath))))

\* C9 witness: a path without an extension argument whose name ends with
\* .zip went to the zip extractor.
C9_Witness ==
  /\ call.fn = "extractJdkFile"
  /\ call.extension = Null
  /\ call.toolPath = <<"/", "t", "/", "a", ".", "z", "i", "p">>
  /\ ret = [kind |-> "extractor", value |-> "extractZip"]

-----------------------------------------------------------------------------
(* Properties of the acquisition pipeline, checked under Spec *)

\* C3 as stated: across any sequence of acquisitions the download
\* collaborator is invoked at most once for a cache key.
C3_AtMostOneDownload == \A k \in CacheKeys : downloads[k] <= 1

\* C3 amended: once an acquisition for a key has succeeded, the download
\* collaborator is not invoked for that key again, and every later
\* acquisition for it is a cache hit that returns the same installed path
\* after the cache check alone.  (Acquisitions that failed before may each
\* have invoked the download collaborator.)
C3_NoDownloadAfterSuccess ==
  [][\A k \in CacheKeys :
       installed[k] # Null =>
         /\ downloads'[k] = downloads[k]
         /\ (pc = "CHECK_CACHE" /\ Key(req) = k) =>
              /\ pc' = "idle"
              /\ outcome' = [kind |-> "ok", version |-> k[2],
                             path |-> installed[k].value, hit |-> TRUE]
              /\ Len(steps') = 1]_vars

\* C3 witness: a key was downloaded and stored once, and a later acquisition
\* for it was a cache hit.
C3_Witness ==
  /\ pc = "idle"
  /\ req.kind = "acquire"
  /\ downloads[Key(req)] = 1
  /\ outcome.kind = "ok"
  /\ outcome.hit
  /\ outcome.path = installed[Key(req)].value

\* C4: the steps of one acquisition are a prefix of CHECK_CACHE, DOWNLOAD,
\* EXTRACT, NORMALIZE, STORE_CACHE, each step after a successful one; a
\* download happens only when the cache had no entry, and a hit only when it
\* had one; a result after a miss is the version with the path the cache
\* store returned.
C4_FixedOrder ==
  req.kind = "acquire" =>
    /\ Len(steps) <= Len(PipelineOrder)
    /\ \A i \in 1..Len(steps) : steps[i].op = PipelineOrder[i]
    /\ \A i \in 1..(Len(steps) - 1) : steps[i].ok
    /\ Len(steps) >= 2 => ~steps[1].present
    /\ (outcome.kind = "ok" /\ outcome.hit) => (Len(steps) = 1 /\ steps[1].present)
    /\ (outcome.kind = "ok" /\ ~outcome.hit) =>
         /\ Len(steps) = Len(PipelineOrder)
         /\ steps[Len(steps)].ok
         /\ outcome.version = req.version
         /\ outcome.path = steps[Len(steps)].returned

\* C4 witness: an acquisition went through all five steps and returned.
C4_Witness ==
  /\ pc = "idle"
  /\ outcome.kind = "ok"
  /\ ~outcome.hit
  /\ Len(steps) = Len(PipelineOrder)

\* The download collaborator calls among the steps.
DownloadSteps == {i \in 1..Len(steps) : steps[i].op = "DOWNLOAD"}

\* C5: after an acquisition failed at download, extraction, normalization
\* or store, the tool cache holds no entry for its key and a lookup of the
\* key misses; the failure ends the acquisition at the failed step, with an
\* error for the caller and without a second download.
C5_NoEntryAfterFailure ==
  /\ \A k \in failed :
       /\ ~existsSync(cacheDir(k[1], k[2], k[3]))
       /\ getToolcachePath(k[1], k[2], k[3]) = Null
  /\ outcome.kind = "error" =>
       /\ pc = "idle"
       /\ Key(req) \in failed
       /\ ~steps[Len(steps)].ok
       /\ Cardinality(DownloadSteps) <= 1

\* C5 witness: an acquisition failed at the cache store after one for
\* another architecture of the same version had succeeded.
C5_Witness ==
  /\ outcome.kind = "error"
  /\ outcome.error = "StoreFailure"
  /\ \E k \in CacheKeys :
       k # Key(req) /\ k[2] = req.version /\ installed[k] # Null

-----------------------------------------------------------------------------
(* Properties of the artifact locator, checked under SpecLocate *)

\* The major version a locate request asks for.
RequestedMajor == ToNumber(req.version)

\* A locate call has ended.
LocateEnded == req.kind = "locate" /\ pc = "idle" /\ outcome.kind # "none"

\* C6: locate fails with UnsupportedArchitecture when the architecture is
\* not in the allowlist, whatever the version; with UnsupportedPackageType
\* when the package type is not jdk; with UnsupportedVersion when the major
\* version is below 17 (each where the rules before it are met); and a
\* request that breaks a rule issues no HTTP request at any time.
C6_FailsFastWhenIneligible ==
  req.kind = "locate" =>
    LET badArch == req.architecture \notin SupportedArchitectures
        badType == req.packageType # "jdk"
        badVersion == RequestedMajor < 17
    IN /\ (badArch \/ badType \/ badVersion) => (steps = <<>> /\ pc # "PROBE")
       /\ (LocateEnded /\ badArch) =>
            outcome = [kind |-> "error", error |-> "UnsupportedArchitecture"]
       /\ (LocateEnded /\ ~badArch /\ badType) =>
            outcome = [kind |-> "error", error |-> "UnsupportedPackageType"]
       /\ (LocateEnded /\ ~badArch /\ ~badType /\ badVersion) =>
            outcome = [kind |-> "error", error |-> "UnsupportedVersion"]

\* C6 witness: a request for major version 16 on x64 with package type jdk
\* failed with UnsupportedVersion.
C6_Witness ==
  /\ LocateEnded
  /\ req.architecture = "x64"
  /\ req.packageType = "jdk"
  /\ RequestedMajor = 16
  /\ outcome = [kind |-> "error", error |-> "UnsupportedVersion"]

\* The templated URL the claim gives for a major version: .zip on Windows,
\* .tar.gz otherwise.
ClaimedUrl ==
  <<"https://download.oracle.com/graalvm/", req.version, "/latest/graalvm-jdk-",
    req.version, "_", getPlatform(platform), "-", req.architecture, "_bin.",
    IF platform = "win32" THEN <<"z", "i", "p">>
    ELSE <<"t", "a", "r", ".", "g", "z">>>>

\* C7: an eligible major-version request issues exactly one HTTP request, a
\* HEAD probe of the one templated URL (for 17, linux, x64 the URL
\* https://download.oracle.com/graalvm/17/latest/graalvm-jdk-17_linux-x64_bin.tar.gz);
\* it returns that URL with the requested major when the status is success
\* and fails on every other status, having probed no other URL.
C7_OneProbeOfTemplatedUrl ==
  (LocateEnded /\ req.architecture \in SupportedArchitectures
     /\ req.packageType = "jdk" /\ RequestedMajor >= 17) =>
    /\ Len(steps) = 1
    /\ steps[1].op = "HEAD"
    /\ steps[1].url = ClaimedUrl
    /\ (req.version = <<"1", "7">> /\ platform = "linux" /\ req.architecture = "x64") =>
         steps[1].url =
           <<"https://download.oracle.com/graalvm/", <<"1", "7">>,
             "/latest/graalvm-jdk-", <<"1", "7">>, "_", "linux", "-", "x64",
             "_bin.", <<"t", "a", "r", ".", "g", "z">>>>
    /\ IF steps[1].status = 200
       THEN outcome = [kind |-> "ok", url |-> ClaimedUrl, version |-> req.version]
       ELSE outcome.kind = "error"

\* C7 witness: the probe for 17 on linux, x64 succeeded and the request
\* resolved to version 17.
C7_Witness ==
  /\ LocateEnded
  /\ platform = "linux"
  /\ req.version = <<"1", "7">>
  /\ req.architecture = "x64"
  /\ outcome.kind = "ok"
  /\ outcome.version = <<"1", "7">>
  /\ Len(steps) = 1
  /\ steps[1].status = 200

====
